---- MODULE Spec2Model ----
(***************************************************************************)
(* GCE backend instance reconciler (appengine/gce-backend/instances.py)    *)
(* as a state machine over the entity store, the Compute Control API, the  *)
(* lifecycle event sink and the tasks that run the module's functions.     *)
(*                                                                         *)
(* Conventions                                                             *)
(*   - None, '' and [] are the falsy values of the Python code.  A         *)
(*     timestamp is a positive integer and 0 stands for None; a string     *)
(*     made of path components (a URL, a full subscription name) is a      *)
(*     sequence of components and << >> stands for None or ''.             *)
(*   - An @ndb.transactional function is one atomic step on the store:     *)
(*     the store serialises transactions on one entity.  Everything        *)
(*     outside a transaction (key.get(), an API call, an event) is a step  *)
(*     of its own, so other tasks may run between two of them.             *)
(*   - A step that only reads entities no function of the module writes    *)
(*     (templates, revisions, the manager's url) is merged with the step   *)
(*     before it.                                                          *)
(***************************************************************************)
EXTENDS Integers, Sequences, FiniteSets, TLC

VARIABLES
  templates,   \* InstanceTemplate entities, by key
  revisions,   \* InstanceTemplateRevision entities, by key
  managers,    \* InstanceGroupManager entities, by key
  instances,   \* Instance entities, by key
  events,      \* lifecycle event sink: number of events sent, by <<kind, name>>
  last,        \* the handler step taken last, and whether it called put()
  callers,     \* concurrent ensure_entity_exists() calls
  tasks,       \* delete_pending() / delete_drained() task executions
  cloud,       \* what the Compute Control API lists for the group: pages
  runs,        \* ensure_entities_exist() task executions
  fx,          \* one execution of fetch(), page by page
  confirmed,   \* api.delete_instances has answered DONE or with a 400
  queue,       \* task queues: number of tasks enqueued, by <<queue name, key>>
  counter,     \* a utils.tools.ProfileCounter and the threads that use it
  cacerts      \* utils.tools._ca_certs, its lock, the files, the callers

vars == <<templates, revisions, managers, instances, events, last,
          callers, tasks, cloud, runs, fx, confirmed, queue, counter,
          cacerts>>

ancestors == <<templates, revisions, managers>>   \* written by other modules
discovery == <<cloud, runs, fx>>
elsewhere == <<queue, counter, cacerts>>   \* the task queues, and utils/tools.py

(***************************************************************************)
(* Bounds of the model.                                                    *)
(***************************************************************************)
MaxPages == 3
MaxLease == 2
MaxClock == 2

(***************************************************************************)
(* Keys.  An ndb key is the path of ids from the root entity; the id of    *)
(* an Instance is '%s %s %s %s' % (base_name, revision, zone, name), which *)
(* key.id().split() takes apart again: the sequence of its four words.     *)
(***************************************************************************)
BaseNames == {"base"}
Revisions == {"rev"}
Zones     == {"z1", "z2"}
Names     == {"a", "b"}

\* Mutant: the id leaves out the name of the instance.
get_instance_key_NoName(base_name, revision, zone, instance_name) ==
  <<base_name, revision, zone, "a">>

get_instance_key(base_name, revision, zone, instance_name) ==
  <<base_name, revision, zone, instance_name>>

\* instance_group_managers.get_instance_group_manager_key(*key.id().split()[:-1])
get_instance_group_manager_key(key) == SubSeq(key, 1, Len(key) - 1)

\* ndb.Key.parent()
parent(key) == SubSeq(key, 1, Len(key) - 1)

TemplateKeys == {<<b>> : b \in BaseNames}
RevisionKeys == {<<b, r>> : b \in BaseNames, r \in Revisions}
ManagerKeys  == {<<b, r, z>> : b \in BaseNames, r \in Revisions, z \in Zones}
InstanceKeys == {<<b, r, z, n>> :
                   b \in BaseNames, r \in Revisions, z \in Zones, n \in Names}

\* The manager and the Instance the per-Instance operations are run on.
Manager0  == <<"base", "rev", "z1">>
Instance0 == get_instance_key("base", "rev", "z1", "a")

(***************************************************************************)
(* Entities.                                                               *)
(***************************************************************************)
NoEntity == [none |-> TRUE]      \* what key.get() returns for a missing entity

\* URL of the VM called name, as the API reports it.
UrlOf(name) == <<"instances", name>>
URLs == {UrlOf(n) : n \in Names}

\* gce.extract_instance_name(url): the last path component.
extract_instance_name(url) == url[Len(url)]

\* models.Instance(key=key, instance_group_manager=..., url=url)
NewInstance(instance_group_manager, url) ==
  [ url                      |-> url,
    instance_group_manager   |-> instance_group_manager,
    pending_deletion         |-> FALSE,
    deletion_ts              |-> 0,
    lease_expiration_ts      |-> 0,
    cataloged                |-> FALSE,
    pubsub_subscription      |-> << >>,
    pubsub_service_account   |-> "",
    pending_metadata_updates |-> << >> ]

\* models.Instance.hostname of the Instance stored under key
hostname(key) == key[Len(key)]

\* pubsub.full_subscription_name(project, subscription):
\* 'projects/%s/subscriptions/%s'
full_subscription_name(project, subscription) ==
  <<"projects", project, "subscriptions", subscription>>

EventKinds ==
  {"CREATED", "DELETION_PROPOSED", "DELETION_SCHEDULED", "DELETION_SUCCEEDED"}

\* metrics.send_machine_event(state, hostname)
send_machine_event(ev, state, name) ==
  [ev EXCEPT ![<<state, name>>] = @ + 1]

NoEvents == [e \in EventKinds \X Names |-> 0]

\* The record of a handler step: which function ran and whether it wrote.
Step(op, put) ==
  [op |-> op, put |-> put, status |-> "", raised |-> FALSE, arg |-> 0]

(***************************************************************************)
(* The transactions on one Instance.  Each takes the entity key.get()      *)
(* returned inside the transaction and yields the entity as committed,     *)
(* whether put() was called, and the lifecycle event sent ("" for none).   *)
(***************************************************************************)
Outcome(instance, put, event) ==
  [instance |-> instance, put |-> put, event |-> event]

\* Mutant: no test of pending_deletion; every call writes and sends.
mark_for_deletion_Always(instance) ==
  IF instance = NoEntity
    THEN Outcome(instance, FALSE, "")
  ELSE Outcome([instance EXCEPT !.lease_expiration_ts = 0,
                                !.pending_deletion = TRUE],
               TRUE, "DELETION_PROPOSED")

\* Mutant: the lease is left as it is.
mark_for_deletion_KeepsLease(instance) ==
  IF instance = NoEntity
    THEN Outcome(instance, FALSE, "")
  ELSE IF ~instance.pending_deletion
    THEN Outcome([instance EXCEPT !.pending_deletion = TRUE],
                 TRUE, "DELETION_PROPOSED")
  ELSE Outcome(instance, FALSE, "")

mark_for_deletion(instance) ==
  IF instance = NoEntity
    THEN Outcome(instance, FALSE, "")
  ELSE IF ~instance.pending_deletion
    THEN Outcome([instance EXCEPT !.lease_expiration_ts = 0,
                                  !.pending_deletion = TRUE],
                 TRUE, "DELETION_PROPOSED")
  ELSE Outcome(instance, FALSE, "")

\* models.MetadataUpdate(metadata={...})
MetadataUpdate(subscription_project, subscription, service_account) ==
  [ pubsub_service_account      |-> service_account,
    pubsub_subscription         |-> subscription,
    pubsub_subscription_project |-> subscription_project ]

\* Mutant: no test of pubsub_subscription; the last call wins.
add_subscription_metadata_Always(instance, subscription_project, subscription, service_account) ==
  IF instance = NoEntity
    THEN Outcome(instance, FALSE, "")
  ELSE Outcome(
         [instance EXCEPT
            !.pending_metadata_updates =
               Append(@, MetadataUpdate(subscription_project, subscription,
                                        service_account)),
            !.pubsub_service_account = service_account,
            !.pubsub_subscription =
               full_subscription_name(subscription_project, subscription)],
         TRUE, "")

add_subscription_metadata(instance, subscription_project, subscription, service_account) ==
  IF instance = NoEntity
    THEN Outcome(instance, FALSE, "")
  ELSE IF instance.pubsub_subscription # << >>
    THEN Outcome(instance, FALSE, "")
  ELSE Outcome(
         [instance EXCEPT
            !.pending_metadata_updates =
               Append(@, MetadataUpdate(subscription_project, subscription,
                                        service_account)),
            !.pubsub_service_account = service_account,
            !.pubsub_subscription =
               full_subscription_name(subscription_project, subscription)],
         TRUE, "")

\* Mutant: the lease is written whatever is stored.
add_lease_expiration_ts_Always(instance, lease_expiration_ts) ==
  IF instance = NoEntity
    THEN Outcome(instance, FALSE, "")
  ELSE Outcome([instance EXCEPT !.lease_expiration_ts = lease_expiration_ts],
               TRUE, "")

add_lease_expiration_ts(instance, lease_expiration_ts) ==
  IF instance = NoEntity
    THEN Outcome(instance, FALSE, "")
  ELSE IF instance.lease_expiration_ts = lease_expiration_ts
    THEN Outcome(instance, FALSE, "")
  ELSE Outcome([instance EXCEPT !.lease_expiration_ts = lease_expiration_ts],
               TRUE, "")

\* Mutant: the transaction does not check again.
_ensure_entity_exists_NoRecheck(instance, url, instance_group_manager) ==
  Outcome(NewInstance(instance_group_manager, url), TRUE, "")

_ensure_entity_exists(instance, url, instance_group_manager) ==
  IF instance # NoEntity
    THEN Outcome(instance, FALSE, "")
  ELSE Outcome(NewInstance(instance_group_manager, url), TRUE, "")

\* Mutant: no test of deletion_ts; the last call wins.
set_deletion_time_Overwrites(instance, ts) ==
  IF instance = NoEntity
    THEN Outcome(instance, FALSE, "")
  ELSE Outcome([instance EXCEPT !.deletion_ts = ts], TRUE, "")

set_deletion_time(instance, ts) ==
  IF instance = NoEntity
    THEN Outcome(instance, FALSE, "")
  ELSE IF instance.deletion_ts # 0
    THEN Outcome(instance, FALSE, "")
  ELSE Outcome([instance EXCEPT !.deletion_ts = ts], TRUE, "")

\* The transaction commits: the store, the event sink and the step record.
\* last.arg keeps the timestamp the transaction was called with.
CommitWith(op, key, r, arg) ==
  /\ instances' = [instances EXCEPT ![key] = r.instance]
  /\ events' = IF r.event = "" THEN events
               ELSE send_machine_event(events, r.event, hostname(key))
  /\ last' = [Step(op, r.put) EXCEPT !.arg = arg]

Commit(op, key, r) == CommitWith(op, key, r, 0)

(***************************************************************************)
(* Callers of the transactions on Instance0: the handlers that report a    *)
(* lease, a subscription or a reclaimed machine.  Their arguments:         *)
(***************************************************************************)
Leases == 0 .. MaxLease          \* None, or a time

\* <<subscription_project, subscription, service_account>>
Subscriptions == { <<"proj", "s1", "sa1">>, <<"proj", "s2", "sa2">>,
                   <<"", "", "">> }

IdleRuns == << >>
NoQueue == << >>
NoCounter == << >>
NoCacerts == << >>
IdleFetch == [pc |-> "idle"]

MarkForDeletion ==
  /\ Commit("mark_for_deletion", Instance0,
            mark_for_deletion(instances[Instance0]))
  /\ UNCHANGED <<elsewhere, ancestors, callers, tasks, confirmed, discovery>>

AddSubscriptionMetadata ==
  \E a \in Subscriptions :
    /\ Commit("add_subscription_metadata", Instance0,
              add_subscription_metadata(instances[Instance0],
                                        a[1], a[2], a[3]))
    /\ UNCHANGED <<elsewhere, ancestors, callers, tasks, confirmed, discovery>>

AddLeaseExpirationTs ==
  \E ts \in Leases :
    /\ CommitWith("add_lease_expiration_ts", Instance0,
                  add_lease_expiration_ts(instances[Instance0], ts), ts)
    /\ UNCHANGED <<elsewhere, ancestors, callers, tasks, confirmed, discovery>>

\* The catalog registers the machine with the Machine Provider.
Catalog ==
  /\ instances[Instance0] # NoEntity
  /\ ~instances[Instance0].cataloged
  /\ instances' = [instances EXCEPT ![Instance0].cataloged = TRUE]
  /\ last' = Step("catalog", TRUE)
  /\ UNCHANGED <<elsewhere, ancestors, events, callers, tasks, confirmed, discovery>>

(***************************************************************************)
(* ensure_entity_exists(key, url, instance_group_manager), a tasklet:      *)
(*   "get"   instance = yield key.get_async()      outside a transaction   *)
(*   "txn"   put = yield _ensure_entity_exists(..) the transaction         *)
(*   "event" metrics.send_machine_event('CREATED', name)                   *)
(* A call that returns leaves its slot at pc `end`.                        *)
(***************************************************************************)
IdleCaller == [pc |-> "idle", key |-> << >>, url |-> << >>,
               instance_group_manager |-> << >>]

\* line 217-219: the check outside the transaction
ensure_entity_exists(c, key, url, instance_group_manager, end) ==
  /\ callers[c].pc = "idle"
  /\ callers' = [callers EXCEPT ![c] =
        IF instances[key] # NoEntity
          THEN [IdleCaller EXCEPT !.pc = end]
          ELSE [ pc |-> "txn", key |-> key, url |-> url,
                 instance_group_manager |-> instance_group_manager ]]
  /\ last' = Step("ensure_entity_exists", FALSE)
  /\ UNCHANGED <<elsewhere, ancestors, instances, events, tasks, confirmed, discovery>>

\* line 221: the transactional re-check-then-create
EnsureTxn(c, end) ==
  /\ callers[c].pc = "txn"
  /\ LET r == _ensure_entity_exists(instances[callers[c].key],
                                    callers[c].url,
                                    callers[c].instance_group_manager)
     IN /\ Commit("_ensure_entity_exists", callers[c].key, r)
        /\ callers' = [callers EXCEPT ![c] =
              IF r.put THEN [callers[c] EXCEPT !.pc = "event"]
              ELSE [IdleCaller EXCEPT !.pc = end]]
  /\ UNCHANGED <<elsewhere, ancestors, tasks, confirmed, discovery>>

\* line 222-223: the CREATED event of the caller that wrote
EnsureEvent(c, end) ==
  /\ callers[c].pc = "event"
  /\ events' = send_machine_event(events, "CREATED",
                                  extract_instance_name(callers[c].url))
  /\ callers' = [callers EXCEPT ![c] = [IdleCaller EXCEPT !.pc = end]]
  /\ last' = Step("send_machine_event", FALSE)
  /\ UNCHANGED <<elsewhere, ancestors, instances, tasks, confirmed, discovery>>

\* Slots are interchangeable: a call takes the first idle one.
Earlier(procs, p) == {q \in DOMAIN procs : q < p}

\* Calls outside any batch, from the discovery tasks of the manager that
\* reached this URL; a slot is free again when its call returns.
EnsureDirect ==
  \E c \in DOMAIN callers :
    /\ \A d \in Earlier(callers, c) : callers[d].pc # "idle"
    /\ ensure_entity_exists(c, Instance0, UrlOf(hostname(Instance0)),
                            Manager0, "idle")

EnsureDirectTxn == \E c \in DOMAIN callers : EnsureTxn(c, "idle")

EnsureDirectEvent == \E c \in DOMAIN callers : EnsureEvent(c, "idle")

(***************************************************************************)
(* Deletion.  delete_pending(key) and delete_drained(key) read the         *)
(* Instance outside any transaction, walk its ancestors and hand the       *)
(* entity they read to _delete, which calls the Compute Control API.       *)
(***************************************************************************)
\* line 426-429: the drained-inheritance rule
Drained(instance_group_manager_key, instance_template_revision, instance_template) ==
  \/ instance_group_manager_key \in instance_template_revision.drained
  \/ parent(instance_group_manager_key) \in instance_template.drained

\* line 291-292: _delete returns at once for an Instance already deleted
DeleteSkips(instance) == instance.deletion_ts # 0

\* Mutant: no test of pending_deletion.
delete_pending_NotPending(instance) ==
  /\ instance # NoEntity
  /\ instance.deletion_ts = 0
  /\ instance.url # << >>
  /\ managers[instance.instance_group_manager] # NoEntity
  /\ revisions[parent(instance.instance_group_manager)] # NoEntity
  /\ revisions[parent(instance.instance_group_manager)].project # ""
  /\ ~DeleteSkips(instance)

\* Mutant: the API is called without any test of deletion_ts.
delete_pending_Deleted(instance) ==
  /\ instance # NoEntity
  /\ instance.pending_deletion
  /\ instance.url # << >>
  /\ managers[instance.instance_group_manager] # NoEntity
  /\ revisions[parent(instance.instance_group_manager)] # NoEntity
  /\ revisions[parent(instance.instance_group_manager)].project # ""

\* line 325-363: TRUE when delete_pending reaches the API call of _delete
delete_pending(instance) ==
  /\ instance # NoEntity
  /\ instance.deletion_ts = 0
  /\ instance.pending_deletion
  /\ instance.url # << >>
  /\ managers[instance.instance_group_manager] # NoEntity
  /\ revisions[parent(instance.instance_group_manager)] # NoEntity
  /\ revisions[parent(instance.instance_group_manager)].project # ""
  /\ ~DeleteSkips(instance)

\* Mutant: only the drained set of the revision is looked at.
delete_drained_OwnRule(instance) ==
  /\ instance # NoEntity
  /\ instance.deletion_ts = 0
  /\ ~instance.cataloged
  /\ instance.url # << >>
  /\ managers[instance.instance_group_manager] # NoEntity
  /\ revisions[parent(instance.instance_group_manager)] # NoEntity
  /\ revisions[parent(instance.instance_group_manager)].project # ""
  /\ templates[parent(parent(instance.instance_group_manager))] # NoEntity
  /\ instance.instance_group_manager
       \in revisions[parent(instance.instance_group_manager)].drained

\* line 379-431: TRUE when delete_drained reaches the API call of _delete
delete_drained(instance) ==
  /\ instance # NoEntity
  /\ instance.deletion_ts = 0
  /\ ~instance.cataloged
  /\ instance.url # << >>
  /\ managers[instance.instance_group_manager] # NoEntity
  /\ revisions[parent(instance.instance_group_manager)] # NoEntity
  /\ revisions[parent(instance.instance_group_manager)].project # ""
  /\ templates[parent(parent(instance.instance_group_manager))] # NoEntity
  /\ Drained(instance.instance_group_manager,
             revisions[parent(instance.instance_group_manager)],
             templates[parent(parent(instance.instance_group_manager))])
  /\ ~DeleteSkips(instance)

\* What api.delete_instances does: it returns a result with a status, or
\* raises net.Error with a status code.
ApiOutcomes == {"DONE", "PENDING", "Error400", "Error500"}

\* What utils.utcnow() may return.
Times == 1 .. MaxClock

\* Mutant: any answer that is not an error counts as DONE.
_delete_AnyStatus(outcome) ==
  IF outcome \in {"DONE", "PENDING"} THEN "DELETION_SCHEDULED"
  ELSE IF outcome = "Error400" THEN "DELETION_SUCCEEDED"
  ELSE ""

\* Mutant: a 400 is reported like DONE.
_delete_OneEvent(outcome) ==
  IF outcome \in {"DONE", "Error400"} THEN "DELETION_SCHEDULED" ELSE ""

\* Mutant: every error is swallowed.
Raises_Never(outcome) == FALSE

\* line 311-316: a net.Error with another status than 400 is raised again
Raises(outcome) == outcome \notin {"DONE", "PENDING", "Error400"}

\* line 302-316: what _delete does with the outcome of the API call:
\* the timestamp and an event, or neither
_delete(outcome) ==
  IF outcome = "DONE" THEN "DELETION_SCHEDULED"
  ELSE IF outcome = "Error400" THEN "DELETION_SUCCEEDED"
  ELSE ""

IdleTask == [pc |-> "idle", handler |-> "", instance |-> NoEntity,
             now |-> 0, event |-> "", put |-> FALSE]

\* The fields of the entity the task read that it goes on to use.
Snapshot(instance) ==
  [ url              |-> instance.url,
    pending_deletion |-> instance.pending_deletion,
    cataloged        |-> instance.cataloged,
    deletion_ts      |-> instance.deletion_ts ]

\* The task reads the Instance and checks it: key.get() to the call of
\* api.delete_instances.  A task that returns frees its slot.
StartTask(t, handler, proceeds) ==
  /\ tasks[t].pc = "idle"
  /\ \A u \in Earlier(tasks, t) : tasks[u].pc # "idle"
  /\ tasks' = [tasks EXCEPT ![t] =
        IF proceeds
          THEN [IdleTask EXCEPT !.handler = handler, !.pc = "rpc",
                                !.instance = Snapshot(instances[Instance0])]
          ELSE IdleTask]
  /\ last' = Step(handler, FALSE)

\* A task dispatched at any time, whatever the queues hold.
DeleteStart(t, handler, proceeds) ==
  /\ StartTask(t, handler, proceeds)
  /\ UNCHANGED <<elsewhere, ancestors, instances, events, callers, confirmed, discovery>>

DeletePending ==
  \E t \in DOMAIN tasks :
    DeleteStart(t, "delete_pending", delete_pending(instances[Instance0]))

DeleteDrained ==
  \E t \in DOMAIN tasks :
    DeleteStart(t, "delete_drained", delete_drained(instances[Instance0]))

\* line 296-301: now = utils.utcnow(); api.delete_instances(.., [instance.url])
\* and what the call answers; an error other than 400 ends the task.
\* The step records what the API answered in last.status.
DeleteRpcAnswer(outcome) ==
  \E t \in DOMAIN tasks, now \in Times :
    /\ tasks[t].pc = "rpc"
    /\ tasks' = [tasks EXCEPT ![t] =
          IF _delete(outcome) = "" THEN IdleTask
          ELSE [tasks[t] EXCEPT !.pc = "set", !.event = _delete(outcome),
                                !.now = now, !.instance = NoEntity]]
    /\ confirmed' = (confirmed \/ outcome \in {"DONE", "Error400"})
    /\ last' = [Step("_delete", FALSE) EXCEPT !.status = outcome,
                                              !.raised = Raises(outcome)]
    /\ UNCHANGED <<elsewhere, ancestors, instances, events, callers, discovery>>

DeleteRpc == \E outcome \in ApiOutcomes : DeleteRpcAnswer(outcome)

\* line 309, 313: set_deletion_time(instance.key, now)
SetDeletionTime ==
  \E t \in DOMAIN tasks :
    /\ tasks[t].pc = "set"
    /\ LET r == set_deletion_time(instances[Instance0], tasks[t].now)
       IN /\ Commit("set_deletion_time", Instance0, r)
          /\ tasks' = [tasks EXCEPT ![t].pc = "event", ![t].put = r.put]
    /\ UNCHANGED <<elsewhere, ancestors, callers, confirmed, discovery>>

\* line 310, 314: metrics.send_machine_event(.., instance.hostname)
DeleteEvent ==
  \E t \in DOMAIN tasks :
    /\ tasks[t].pc = "event"
    /\ events' = send_machine_event(events, tasks[t].event,
                                    hostname(Instance0))
    /\ tasks' = [tasks EXCEPT ![t] = IdleTask]
    /\ last' = Step("send_machine_event", FALSE)
    /\ UNCHANGED <<elsewhere, ancestors, instances, callers, confirmed, discovery>>

(***************************************************************************)
(* The store before any Instance is discovered: it holds the ancestors of  *)
(* the Instance, in any of the states the guards tell apart.               *)
(***************************************************************************)
Template(drained) == [drained |-> drained]
Revision(project, drained) == [project |-> project, drained |-> drained]
Manager(url) == [url |-> url, instances |-> {}]

Ancestors(template, revision, manager) ==
  [template |-> template, revision |-> revision, manager |-> manager]

AncestorStates ==
  { Ancestors(Template({}), Revision("proj", {Manager0}), Manager(<<"g1">>)),
    Ancestors(Template({parent(Manager0)}), Revision("proj", {}),
              Manager(<<"g1">>)),
    Ancestors(Template({}), Revision("proj", {}), Manager(<<"g1">>)),
    Ancestors(NoEntity, Revision("proj", {Manager0}), Manager(<<"g1">>)),
    Ancestors(Template({}), Revision("", {Manager0}), Manager(<<"g1">>)),
    Ancestors(Template({}), NoEntity, Manager(<<"g1">>)),
    Ancestors(Template({}), Revision("proj", {Manager0}), NoEntity) }

InitStore(states) ==
  /\ \E a \in states :
       /\ templates = [k \in TemplateKeys |-> a.template]
       /\ revisions = [k \in RevisionKeys |-> a.revision]
       /\ managers = [k \in ManagerKeys |->
                        IF k = Manager0 THEN a.manager ELSE NoEntity]
  /\ instances = [k \in InstanceKeys |-> NoEntity]
  /\ events = NoEvents
  /\ last = Step("", FALSE)
  /\ confirmed = FALSE

(***************************************************************************)
(* Spec: every operation on one Instance.  Two calls of                    *)
(* ensure_entity_exists and one deletion task may be in flight at a time.  *)
(***************************************************************************)
Init ==
  /\ InitStore(AncestorStates)
  /\ callers = [c \in {1, 2} |-> IdleCaller]
  /\ tasks = [t \in {1} |-> IdleTask]
  /\ queue = NoQueue
  /\ counter = NoCounter
  /\ cacerts = NoCacerts
  /\ cloud = << >>
  /\ runs = IdleRuns
  /\ fx = IdleFetch

Next ==
  \/ EnsureDirect
  \/ EnsureDirectTxn
  \/ EnsureDirectEvent
  \/ MarkForDeletion
  \/ AddSubscriptionMetadata
  \/ AddLeaseExpirationTs
  \/ Catalog
  \/ DeletePending
  \/ DeleteDrained
  \/ DeleteRpc
  \/ SetDeletionTime
  \/ DeleteEvent

Spec == Init /\ [][Next]_vars

(***************************************************************************)
(* SpecDelete: the deletion of one Instance under at-least-once dispatch.  *)
(* Two deletion tasks may be in flight at a time, next to discovery, the   *)
(* catalog and mark_for_deletion.                                          *)
(***************************************************************************)
InitDelete ==
  /\ InitStore(AncestorStates)
  /\ callers = [c \in {1} |-> IdleCaller]
  /\ tasks = [t \in {1, 2} |-> IdleTask]
  /\ queue = NoQueue
  /\ counter = NoCounter
  /\ cacerts = NoCacerts
  /\ cloud = << >>
  /\ runs = IdleRuns
  /\ fx = IdleFetch

NextDelete ==
  \/ EnsureDirect
  \/ EnsureDirectTxn
  \/ EnsureDirectEvent
  \/ MarkForDeletion
  \/ Catalog
  \/ DeletePending
  \/ DeleteDrained
  \/ DeleteRpc
  \/ SetDeletionTime
  \/ DeleteEvent

SpecDelete == InitDelete /\ [][NextDelete]_vars

(***************************************************************************)
(* fetch(key).  The Compute Control API lists the group page by page: a    *)
(* page is the JSON object of one response, which may lack the 'items' key *)
(* (the first page is read with result.get('items', [])), and which        *)
(* carries 'nextPageToken' when another page follows.  The token of a page *)
(* is the number of the page it continues at; 0 is no token.               *)
(***************************************************************************)
Page(has_items, items, nextPageToken) ==
  [has_items |-> has_items, items |-> items, nextPageToken |-> nextPageToken]

\* What a page may hold: no 'items' key, or a list of {'instance': url}.
PageItems == { << >> } \cup { <<u>> : u \in URLs }
PageContents ==
  { <<FALSE, << >> >> } \cup { <<TRUE, items>> : items \in PageItems }

\* The listings of n pages: every page but the last carries a token.
ListingsOf(n) ==
  { [i \in 1 .. n |->
       Page(c[i][1], c[i][2], IF i < n THEN i + 1 ELSE 0)] :
    c \in [1 .. n -> PageContents] }

Listings(max) == UNION { ListingsOf(n) : n \in 1 .. max }

\* api.get_instances_in_instance_group(name, zone, max_results, page_token)
get_instances_in_instance_group(listing, page_token) ==
  listing[IF page_token = 0 THEN 1 ELSE page_token]

\* line 142-159: the preconditions, checked before any call of the API
FetchPreconditions(key) ==
  /\ managers[key] # NoEntity
  /\ managers[key].url # << >>
  /\ revisions[parent(key)] # NoEntity
  /\ revisions[parent(key)].project # ""

\* The local state of fetch: where it is, the last response, the URLs
\* gathered, what the name `instance` is bound to, and the page_token of
\* every call of the API so far (0 for the first call).
FetchState(pc, result, instance_urls, instance, requests) ==
  [ pc |-> pc, result |-> result, instance_urls |-> instance_urls,
    instance |-> instance, requests |-> requests ]

NoPage == Page(FALSE, << >>, 0)

\* line 142-167: the preconditions and the first call
fetch_first(key, listing) ==
  IF ~FetchPreconditions(key)
    THEN FetchState("return", NoPage, << >>, "manager", << >>)
  ELSE LET result == get_instances_in_instance_group(listing, 0)
       IN FetchState("while", result,
                     IF result.has_items THEN result.items ELSE << >>,
                     "manager", <<0>>)

\* line 168-177: the test of the while loop and one run of its body.
\* The code runs under Python 2 (cStringIO, google.appengine.ext.ndb),
\* where the variable of a list comprehension is a variable of the
\* function: line 175 rebinds `instance`, the manager, to the last item of
\* the page, and the next call of line 169-171 then reads .key of a dict.
\* result['items'] raises KeyError on a page without the key.
fetch_next(listing, st) ==
  IF st.result.nextPageToken = 0
    THEN [st EXCEPT !.pc = "return"]
  ELSE IF st.instance # "manager"
    THEN [st EXCEPT !.pc = "AttributeError"]
  ELSE LET result == get_instances_in_instance_group(
                       listing, st.result.nextPageToken)
           requests == Append(st.requests, st.result.nextPageToken)
       IN IF ~result.has_items
            THEN [st EXCEPT !.pc = "KeyError", !.result = result,
                            !.requests = requests]
            ELSE [st EXCEPT !.result = result,
                            !.instance_urls = @ \o result.items,
                            !.instance = IF result.items # << >>
                                           THEN "item" ELSE @,
                            !.requests = requests]

RECURSIVE fetch_loop(_, _)
fetch_loop(listing, st) ==
  IF st.pc # "while" THEN st ELSE fetch_loop(listing, fetch_next(listing, st))

\* fetch(key) from its call to its return, or to the exception it raises
fetch(key, listing) == fetch_loop(listing, fetch_first(key, listing))

(***************************************************************************)
(* SpecFetch: one execution of fetch(Manager0), call by call, for every    *)
(* state of the manager and its revision the preconditions tell apart and  *)
(* every listing of up to MaxPages pages.                                  *)
(***************************************************************************)
DiscoveryStates ==
  { Ancestors(Template({}), Revision("proj", {}), Manager(<<"g1">>)),
    Ancestors(Template({}), Revision("proj", {}), NoEntity),
    Ancestors(Template({}), Revision("proj", {}), Manager(<< >>)),
    Ancestors(Template({}), NoEntity, Manager(<<"g1">>)),
    Ancestors(Template({}), Revision("", {}), Manager(<<"g1">>)) }

InitFetch ==
  /\ InitStore(DiscoveryStates)
  /\ callers = << >>
  /\ tasks = << >>
  /\ queue = NoQueue
  /\ counter = NoCounter
  /\ cacerts = NoCacerts
  /\ cloud \in Listings(MaxPages)
  /\ runs = IdleRuns
  /\ fx = IdleFetch

FetchFirst ==
  /\ fx.pc = "idle"
  /\ fx' = fetch_first(Manager0, cloud)
  /\ last' = Step("fetch", FALSE)
  /\ UNCHANGED <<elsewhere, ancestors, instances, events, callers, tasks, confirmed,
                 cloud, runs>>

FetchNext ==
  /\ fx.pc = "while"
  /\ fx' = fetch_next(cloud, fx)
  /\ last' = Step("fetch", FALSE)
  /\ UNCHANGED <<elsewhere, ancestors, instances, events, callers, tasks, confirmed,
                 cloud, runs>>

NextFetch ==
  \/ FetchFirst
  \/ FetchNext

SpecFetch == InitFetch /\ [][NextFetch]_vars

(***************************************************************************)
(* ensure_entities_exist(key, max_concurrent=50), a task of the            *)
(* 'fetch-instances' queue:                                                *)
(*   "idle"   urls = fetch(key)                                            *)
(*   "batch"  utilities.batch_process_async(urls, ensure_entity_exists):   *)
(*            one call per item of urls, at most max_concurrent in flight  *)
(*   then     instance_group_managers.set_instances(key, keys.values())    *)
(* fetch only reads the manager's url and the revision, which no function  *)
(* here writes, and the listing, which is fixed: it is one step.           *)
(***************************************************************************)
max_concurrent == 50

\* line 238-246: the key of the Instance of a URL of the manager's group
KeyOf(key, url) ==
  get_instance_key(key[1], key[2], key[3], extract_instance_name(url))

\* instance_group_managers.set_instances(key, keys): a transaction
set_instances(key, keys) ==
  IF managers[key] = NoEntity THEN managers
  ELSE [managers EXCEPT ![key].instances = keys]

Range(seq) == {seq[i] : i \in DOMAIN seq}

IdleRun == [pc |-> "idle", urls |-> << >>, requests |-> << >>,
            again |-> FALSE]

\* The calls of run r's batch: one per item of urls.
Batch(r) == {<<r, i>> : i \in 1 .. Len(runs[r].urls)}

InFlight(r) == {c \in Batch(r) : callers[c].pc \in {"txn", "event"}}

\* line 233: urls = fetch(key); a run that starts after a run of the same
\* manager has ended is run `again`.
RunFetch(r) ==
  /\ runs[r].pc = "idle"
  /\ \A q \in 1 .. r - 1 : runs[q].pc # "idle"
  /\ LET st == fetch(Manager0, cloud)
     IN runs' = [runs EXCEPT ![r] =
          [ pc       |-> IF st.pc = "return" THEN "batch" ELSE "raised",
            urls     |-> IF st.pc = "return" THEN st.instance_urls ELSE << >>,
            requests |-> st.requests,
            again    |-> \E q \in DOMAIN runs : runs[q].pc = "done" ]]
  /\ last' = Step("fetch", FALSE)
  /\ UNCHANGED <<elsewhere, ancestors, instances, events, callers, tasks, confirmed,
                 cloud, fx>>

\* line 248-252: a call of the batch starts
BatchStart(r) ==
  \E c \in Batch(r) :
    /\ runs[r].pc = "batch"
    /\ Cardinality(InFlight(r)) < max_concurrent
    /\ ensure_entity_exists(c, KeyOf(Manager0, runs[r].urls[c[2]]),
                            runs[r].urls[c[2]], Manager0, "done")

BatchTxn(r) == \E c \in Batch(r) : EnsureTxn(c, "done")

BatchEvent(r) == \E c \in Batch(r) : EnsureEvent(c, "done")

\* line 234-236, 254: every call has returned; set_instances
RunSetInstances(r) ==
  /\ runs[r].pc = "batch"
  /\ \A c \in Batch(r) : callers[c].pc = "done"
  /\ managers' = set_instances(Manager0,
                   {KeyOf(Manager0, url) : url \in Range(runs[r].urls)})
  /\ runs' = [runs EXCEPT ![r].pc = "done"]
  /\ last' = Step("set_instances", managers' # managers)
  /\ UNCHANGED <<elsewhere, templates, revisions, instances, events, callers, tasks,
                 confirmed, cloud, fx>>

(***************************************************************************)
(* SpecDiscovery: two 'fetch-instances' tasks of the manager, dispatched   *)
(* in any order and possibly at once, against a listing of up to MaxPages  *)
(* pages that does not change.                                             *)
(***************************************************************************)
Runs == {1, 2}

InitDiscovery ==
  /\ InitStore(DiscoveryStates)
  /\ callers = [c \in Runs \X (1 .. MaxPages) |-> IdleCaller]
  /\ tasks = << >>
  /\ queue = NoQueue
  /\ counter = NoCounter
  /\ cacerts = NoCacerts
  /\ cloud \in Listings(MaxPages)
  /\ runs = [r \in Runs |-> IdleRun]
  /\ fx = IdleFetch

NextDiscovery ==
  \E r \in Runs :
    \/ RunFetch(r)
    \/ BatchStart(r)
    \/ BatchTxn(r)
    \/ BatchEvent(r)
    \/ RunSetInstances(r)

SpecDiscovery == InitDiscovery /\ [][NextDiscovery]_vars

(***************************************************************************)
(* SpecCalls: the functions of the module called on one Instance key, at   *)
(* any time and with any argument, from any state of the Instance and of   *)
(* its ancestors that their guards tell apart: the Instance may be         *)
(* missing, or have no url.                                                *)
(***************************************************************************)
InstanceStates ==
  { NoEntity } \cup
  { [NewInstance(Manager0, url) EXCEPT !.pending_deletion = p,
                                       !.cataloged = c,
                                       !.deletion_ts = ts] :
      url \in {<< >>, UrlOf("a")}, p \in BOOLEAN, c \in BOOLEAN,
      ts \in {0, 1} }

\* set_deletion_time(key, ts), called on its own
SetDeletionTimeCall ==
  \E ts \in Times :
    /\ CommitWith("set_deletion_time", Instance0,
                  set_deletion_time(instances[Instance0], ts), ts)
    /\ UNCHANGED <<elsewhere, ancestors, callers, tasks, confirmed, discovery>>

InitCalls ==
  /\ \E a \in AncestorStates :
       /\ templates = [k \in TemplateKeys |-> a.template]
       /\ revisions = [k \in RevisionKeys |-> a.revision]
       /\ managers = [k \in ManagerKeys |->
                        IF k = Manager0 THEN a.manager ELSE NoEntity]
  /\ \E instance \in InstanceStates :
       /\ instances = [k \in InstanceKeys |->
                         IF k = Instance0 THEN instance ELSE NoEntity]
       /\ confirmed = (instance # NoEntity /\ instance.deletion_ts # 0)
  /\ events = NoEvents
  /\ last = Step("", FALSE)
  /\ callers = << >>
  /\ tasks = [t \in {1} |-> IdleTask]
  /\ queue = NoQueue
  /\ counter = NoCounter
  /\ cacerts = NoCacerts
  /\ cloud = << >>
  /\ runs = IdleRuns
  /\ fx = IdleFetch

NextCalls ==
  \/ MarkForDeletion
  \/ AddSubscriptionMetadata
  \/ AddLeaseExpirationTs
  \/ SetDeletionTimeCall
  \/ DeletePending
  \/ DeleteDrained
  \/ DeleteRpc
  \/ SetDeletionTime
  \/ DeleteEvent

SpecCalls == InitCalls /\ [][NextCalls]_vars

(***************************************************************************)
(* The scheduled scans and the task queues.  A scan runs a datastore query *)
(* and calls utilities.enqueue_task(queue name, key) for the entities it   *)
(* selects; the task dispatcher later runs the handler of the queue on the *)
(* key.  `queue` counts the tasks enqueued and not yet dispatched.         *)
(***************************************************************************)
MaxQueued == 2

QueuedTasks ==
  ({"fetch-instances"} \X ManagerKeys)
    \cup ({"delete-instance-pending-deletion", "delete-drained-instance"}
            \X InstanceKeys)

EmptyQueue == [e \in QueuedTasks |-> 0]

\* line 260: the test of schedule_fetch on an entity of the query
FetchSelects(instance_group_manager) ==
  instance_group_manager.url # << >>

\* Mutant: deletion_ts is not looked at.
PendingSelects_Deleted(instance) == instance.pending_deletion

\* line 369: the test of schedule_pending_deletion on an entity of the query
PendingSelects(instance) ==
  instance.pending_deletion /\ instance.deletion_ts = 0

\* Mutant: cataloged is not looked at.
DrainedSelects_Cataloged(instance) ==
  instance # NoEntity /\ instance.deletion_ts = 0

\* line 442: the test of schedule_drained_deletion on instance_key.get()
DrainedSelects(instance) ==
  instance # NoEntity /\ ~instance.cataloged /\ instance.deletion_ts = 0

\* instance_group_managers.get_drained_instance_group_managers(): the keys
\* of the managers the drained-inheritance rule holds of
get_drained_instance_group_managers ==
  { k \in ManagerKeys :
      /\ templates[parent(parent(k))] # NoEntity
      /\ revisions[parent(k)] # NoEntity
      /\ Drained(k, revisions[parent(k)], templates[parent(parent(k))]) }

\* line 257-261: a task per InstanceGroupManager of the query with a url
schedule_fetch(q) ==
  [e \in DOMAIN q |->
     IF /\ e[1] = "fetch-instances"
        /\ managers[e[2]] # NoEntity
        /\ FetchSelects(managers[e[2]])
       THEN q[e] + 1 ELSE q[e]]

\* line 366-370: a task per Instance of the query the test selects
schedule_pending_deletion(q) ==
  [e \in DOMAIN q |->
     IF /\ e[1] = "delete-instance-pending-deletion"
        /\ instances[e[2]] # NoEntity
        /\ PendingSelects(instances[e[2]])
       THEN q[e] + 1 ELSE q[e]]

\* line 434-443: a task per Instance the test selects among the instances
\* of the drained managers that exist
schedule_drained_deletion(q) ==
  [e \in DOMAIN q |->
     IF /\ e[1] = "delete-drained-instance"
        /\ \E k \in get_drained_instance_group_managers :
             managers[k] # NoEntity /\ e[2] \in managers[k].instances
        /\ DrainedSelects(instances[e[2]])
       THEN q[e] + 1 ELSE q[e]]

\* A run of a scan, from its query to its last enqueue_task.
Scan(op, q) ==
  /\ \A e \in DOMAIN q : q[e] <= MaxQueued
  /\ queue' = q
  /\ last' = Step(op, FALSE)
  /\ UNCHANGED <<ancestors, instances, events, callers, tasks, confirmed,
                 discovery, counter, cacerts>>

ScheduleFetch == Scan("schedule_fetch", schedule_fetch(queue))

SchedulePendingDeletion ==
  Scan("schedule_pending_deletion", schedule_pending_deletion(queue))

ScheduleDrainedDeletion ==
  Scan("schedule_drained_deletion", schedule_drained_deletion(queue))

\* The dispatcher takes a task of a deletion queue and runs its handler on
\* the key: delete_pending(key) or delete_drained(key).
Dispatch(name, handler, proceeds) ==
  \E t \in DOMAIN tasks :
    /\ queue[<<name, Instance0>>] > 0
    /\ queue' = [queue EXCEPT ![<<name, Instance0>>] = @ - 1]
    /\ StartTask(t, handler, proceeds)
    /\ UNCHANGED <<ancestors, instances, events, callers, confirmed,
                   discovery, counter, cacerts>>

DispatchPending ==
  Dispatch("delete-instance-pending-deletion", "delete_pending",
           delete_pending(instances[Instance0]))

DispatchDrained ==
  Dispatch("delete-drained-instance", "delete_drained",
           delete_drained(instances[Instance0]))

(***************************************************************************)
(* SpecSchedule: the deletion of one Instance by the scheduled scans.      *)
(* The store starts with the Instance in any state the guards of the       *)
(* deletion functions tell apart, and the queues with the tasks earlier    *)
(* scans left for it, whatever has become of the Instance since; the scans *)
(* enqueue tasks, the dispatcher runs them, and the API answers what it    *)
(* likes.                                                                  *)
(***************************************************************************)
StaleTasks ==
  {"delete-instance-pending-deletion", "delete-drained-instance"}
    \X {Instance0}

InitSchedule ==
  /\ \E a \in AncestorStates, listed \in BOOLEAN :
       /\ templates = [k \in TemplateKeys |-> a.template]
       /\ revisions = [k \in RevisionKeys |-> a.revision]
       /\ managers = [k \in ManagerKeys |->
            IF k # Manager0 \/ a.manager = NoEntity THEN NoEntity
            ELSE [a.manager EXCEPT
                    !.instances = IF listed THEN {Instance0} ELSE {}]]
  /\ \E instance \in InstanceStates :
       /\ instances = [k \in InstanceKeys |->
                         IF k = Instance0 THEN instance ELSE NoEntity]
       /\ confirmed = (instance # NoEntity /\ instance.deletion_ts # 0)
  /\ events = NoEvents
  /\ last = Step("", FALSE)
  /\ callers = << >>
  /\ tasks = [t \in {1} |-> IdleTask]
  /\ \E stale \in SUBSET StaleTasks :
       queue = [e \in QueuedTasks |-> IF e \in stale THEN 1 ELSE 0]
  /\ counter = NoCounter
  /\ cacerts = NoCacerts
  /\ cloud = << >>
  /\ runs = IdleRuns
  /\ fx = IdleFetch

NextSchedule ==
  \/ SchedulePendingDeletion
  \/ ScheduleDrainedDeletion
  \/ DispatchPending
  \/ DispatchDrained
  \/ DeleteRpc
  \/ SetDeletionTime
  \/ DeleteEvent
  \/ MarkForDeletion
  \/ Catalog

SpecSchedule == InitSchedule /\ [][NextSchedule]_vars

\* The API answers DONE or raises a 400.
DeleteRpcConfirms ==
  DeleteRpcAnswer("DONE") \/ DeleteRpcAnswer("Error400")

\* SpecScheduleFair: SpecSchedule where the cron job runs
\* schedule_pending_deletion again and again, the dispatcher runs every
\* task enqueued, a task that runs goes on to its end, and the API does
\* not refuse for ever to confirm a deletion.
SpecScheduleFair ==
  /\ SpecSchedule
  /\ SF_vars(SchedulePendingDeletion)
  /\ SF_vars(DispatchPending)
  /\ WF_vars(DeleteRpc)
  /\ SF_vars(DeleteRpcConfirms)
  /\ WF_vars(SetDeletionTime)
  /\ WF_vars(DeleteEvent)

(***************************************************************************)
(* SpecScan: the three scans over a store of two managers and three        *)
(* Instances, in every combination of the states their tests tell apart.   *)
(* Nothing else runs: the scans read the store and write the queues.       *)
(***************************************************************************)
Manager1 == <<"base", "rev", "z2">>
InstanceB == get_instance_key("base", "rev", "z1", "b")
Instance1 == get_instance_key("base", "rev", "z2", "a")

\* An Instance entity of a manager, as discovery and the lifecycle leave it.
InstanceOf(key, pending_deletion, cataloged, deletion_ts) ==
  [NewInstance(get_instance_group_manager_key(key), UrlOf(hostname(key)))
     EXCEPT !.pending_deletion = pending_deletion,
            !.cataloged = cataloged,
            !.deletion_ts = deletion_ts]

InitScan ==
  /\ \E template \in {NoEntity, Template({}), Template({<<"base", "rev">>})},
        drained \in {{}, {Manager0}, {Manager0, Manager1}} :
       /\ templates = [k \in TemplateKeys |-> template]
       /\ revisions = [k \in RevisionKeys |-> Revision("proj", drained)]
  /\ \E m0 \in {NoEntity, Manager(<< >>)} \cup
               { [Manager(<<"g1">>) EXCEPT !.instances = listed] :
                   listed \in {{}, {Instance0}, {Instance0, InstanceB}} },
        m1 \in {NoEntity, [Manager(<<"g2">>) EXCEPT !.instances = {Instance1}]} :
       managers = [k \in ManagerKeys |->
                     IF k = Manager0 THEN m0 ELSE IF k = Manager1 THEN m1
                     ELSE NoEntity]
  /\ \E a \in {NoEntity} \cup
              { InstanceOf(Instance0, p, c, ts) :
                  p \in BOOLEAN, c \in BOOLEAN, ts \in {0, 1} },
        b \in {NoEntity, InstanceOf(InstanceB, TRUE, FALSE, 0)},
        c \in {NoEntity, InstanceOf(Instance1, FALSE, FALSE, 0)} :
       instances = [k \in InstanceKeys |->
                      IF k = Instance0 THEN a ELSE IF k = InstanceB THEN b
                      ELSE IF k = Instance1 THEN c ELSE NoEntity]
  /\ events = NoEvents
  /\ last = Step("", FALSE)
  /\ confirmed = FALSE
  /\ callers = << >>
  /\ tasks = << >>
  /\ queue = EmptyQueue
  /\ counter = NoCounter
  /\ cacerts = NoCacerts
  /\ cloud = << >>
  /\ runs = IdleRuns
  /\ fx = IdleFetch

NextScan ==
  \/ ScheduleFetch
  \/ SchedulePendingDeletion
  \/ ScheduleDrainedDeletion

SpecScan == InitScan /\ [][NextScan]_vars

(***************************************************************************)
(* utils/tools.py: ProfileCounter, a context manager shared by the threads *)
(* of a process.  counter holds the fields of one ProfileCounter, the      *)
(* clock time.time() reads, and for every thread its threading.local()     *)
(* attributes of self._active, where it is in __exit__, and how many times *)
(* it has entered the counter from outside.                                *)
(***************************************************************************)
MaxDepth == 2      \* nested entries of a thread
MaxCalls == 2      \* entries of a thread from outside
MaxTime == 2       \* the last time the clock shows

Threads == {1, 2}

\* threading.local(): no attribute is set; getattr(.., 'recursion', 0) is 0
NewLocal ==
  [recursion |-> 0, started |-> 0, pc |-> "out", time_inside |-> 0,
   entered |-> 0]

\* line 141-149: ProfileCounter.__init__
NewCounter ==
  [ call_count |-> 0, total_time |-> 0, lock |-> 0, clock |-> 0,
    active |-> [t \in Threads |-> NewLocal] ]

\* self._active is a threading.local(): every thread has its own attributes
Local(t) == t

\* Mutant: every exit is an outermost exit.
Outermost_Always(recursion) == TRUE

\* line 167, 174: `if not recursion`
Outermost(recursion) == recursion = 0

\* The state of everything but the counter.
reconciler ==
  <<ancestors, instances, events, last, callers, tasks, confirmed,
    discovery, queue, cacerts>>

\* line 165-169: __enter__
Enter(t) ==
  \E now \in counter.clock .. MaxTime :
    LET a == counter.active[Local(t)]
        recursion == a.recursion
    IN /\ counter.active[t].pc = "out"
       /\ recursion < MaxDepth
       /\ recursion = 0 => counter.active[t].entered < MaxCalls
       /\ counter' = [counter EXCEPT
            !.clock = IF Outermost(recursion) THEN now ELSE @,
            !.active[Local(t)].started =
               IF Outermost(recursion) THEN now ELSE @,
            !.active[Local(t)].recursion = recursion + 1,
            !.active[t].entered = IF recursion = 0 THEN @ + 1 ELSE @]
       /\ UNCHANGED reconciler

\* line 171-174: __exit__ up to `with self._lock`
ExitBegin(t) ==
  \E now \in counter.clock .. MaxTime :
    LET a == counter.active[Local(t)]
        recursion == a.recursion - 1
    IN /\ counter.active[t].pc = "out"
       /\ a.recursion > 0
       /\ counter' = [counter EXCEPT
            !.active[Local(t)].recursion = recursion,
            !.clock = IF Outermost(recursion) THEN now ELSE @,
            !.active[t].time_inside =
               IF Outermost(recursion) THEN now - a.started ELSE @,
            !.active[t].pc = IF Outermost(recursion) THEN "lock" ELSE "out"]
       /\ UNCHANGED reconciler

\* line 175: with self._lock
Acquire(t) ==
  /\ counter.active[t].pc = "lock"
  /\ counter.lock = 0
  /\ counter' = [counter EXCEPT !.lock = t, !.active[t].pc = "total_time"]
  /\ UNCHANGED reconciler

\* line 176: self._total_time += time_inside
AddTime(t) ==
  /\ counter.active[t].pc = "total_time"
  /\ counter' = [counter EXCEPT
       !.total_time = @ + counter.active[t].time_inside,
       !.active[t].pc = "call_count"]
  /\ UNCHANGED reconciler

\* line 177: self._call_count += 1, and the lock is released
AddCount(t) ==
  /\ counter.active[t].pc = "call_count"
  /\ counter' = [counter EXCEPT
       !.call_count = @ + 1,
       !.lock = 0,
       !.active[t].pc = "out",
       !.active[t].time_inside = 0]
  /\ UNCHANGED reconciler

(***************************************************************************)
(* SpecProfile: two threads enter and leave one ProfileCounter, each up to *)
(* MaxCalls times from outside and up to MaxDepth deep.                    *)
(***************************************************************************)
InitProfile ==
  /\ InitStore({Ancestors(NoEntity, NoEntity, NoEntity)})
  /\ callers = << >>
  /\ tasks = << >>
  /\ queue = NoQueue
  /\ counter = NewCounter
  /\ cacerts = NoCacerts
  /\ cloud = << >>
  /\ runs = IdleRuns
  /\ fx = IdleFetch

NextProfile ==
  \E t \in Threads :
    \/ Enter(t)
    \/ ExitBegin(t)
    \/ Acquire(t)
    \/ AddTime(t)
    \/ AddCount(t)

SpecProfile == InitProfile /\ [][NextProfile]_vars

(***************************************************************************)
(* utils/tools.py: get_cacerts_bundle().  cacerts holds the module global  *)
(* _ca_certs (0 is None, else a path), the holder of _ca_certs_lock (0 is  *)
(* free), the paths that exist on disk, and for every thread where it is   *)
(* in the function:                                                        *)
(*   "out"      not in the function                                        *)
(*   "lock"     line 297: waiting for _ca_certs_lock                       *)
(*   "check"    line 298: the test of _ca_certs and os.path.exists         *)
(*   "extract"  line 302: zip_package.extract_resource(..) is running      *)
(*   "assign"   line 302: the assignment to _ca_certs                      *)
(*   "return"   line 299, 303: leaving the with block with the value       *)
(*   "returned" the caller has the value                                   *)
(* Any process may remove a file at any time (line 300).                   *)
(***************************************************************************)
MaxPaths == 2      \* paths extract_resource may return

Paths == 1 .. MaxPaths
CacertsThreads == {1, 2, 3}

OutCaller == [pc |-> "out", path |-> 0, value |-> 0]

\* line 26-27: _ca_certs = None, _ca_certs_lock = threading.Lock()
NewCacerts ==
  [ ca_certs |-> 0, lock |-> 0, files |-> {},
    callers |-> [t \in CacertsThreads |-> OutCaller] ]

\* The state of everything but cacerts.
unbundled ==
  <<ancestors, instances, events, last, callers, tasks, confirmed,
    discovery, queue, counter>>

\* line 298: _ca_certs is not None and os.path.exists(_ca_certs)
Cached(ca_certs, files) == ca_certs # 0 /\ ca_certs \in files

\* A thread calls get_cacerts_bundle().
CallGetCacertsBundle(t) ==
  /\ cacerts.callers[t].pc \in {"out", "returned"}
  /\ cacerts' = [cacerts EXCEPT !.callers[t] = [OutCaller EXCEPT !.pc = "lock"]]
  /\ UNCHANGED unbundled

\* Mutant: the with block is entered whoever holds the lock.
AcquireCacertsLock_NoLock(t) ==
  /\ cacerts.callers[t].pc = "lock"
  /\ cacerts' = [cacerts EXCEPT !.lock = t, !.callers[t].pc = "check"]
  /\ UNCHANGED unbundled

\* line 297: with _ca_certs_lock
AcquireCacertsLock(t) ==
  /\ cacerts.callers[t].pc = "lock"
  /\ cacerts.lock = 0
  /\ cacerts' = [cacerts EXCEPT !.lock = t, !.callers[t].pc = "check"]
  /\ UNCHANGED unbundled

\* line 298-299: the cached path is returned if its file exists
CheckCached(t) ==
  /\ cacerts.callers[t].pc = "check"
  /\ cacerts' = [cacerts EXCEPT !.callers[t] =
        IF Cached(cacerts.ca_certs, cacerts.files)
          THEN [@ EXCEPT !.pc = "return", !.value = cacerts.ca_certs]
          ELSE [@ EXCEPT !.pc = "extract"]]
  /\ UNCHANGED unbundled

\* line 302, right-hand side: extract_resource writes the file and returns
\* its path.
ExtractResource(t) ==
  \E path \in Paths :
    /\ cacerts.callers[t].pc = "extract"
    /\ cacerts' = [cacerts EXCEPT !.files = @ \cup {path},
                                  !.callers[t].pc = "assign",
                                  !.callers[t].path = path]
    /\ UNCHANGED unbundled

\* line 302, the assignment; line 303 reads the global back
AssignCacerts(t) ==
  /\ cacerts.callers[t].pc = "assign"
  /\ cacerts' = [cacerts EXCEPT !.ca_certs = cacerts.callers[t].path,
                                !.callers[t].pc = "return",
                                !.callers[t].value = cacerts.callers[t].path]
  /\ UNCHANGED unbundled

\* line 299, 303: return leaves the with block, which releases the lock
ReturnCacerts(t) ==
  /\ cacerts.callers[t].pc = "return"
  /\ cacerts' = [cacerts EXCEPT !.lock = 0, !.callers[t].pc = "returned"]
  /\ UNCHANGED unbundled

\* line 300: "Some rogue process clears /tmp and causes cacert.pem to
\* disappear"
RemoveFile ==
  \E path \in cacerts.files :
    /\ cacerts' = [cacerts EXCEPT !.files = @ \ {path}]
    /\ UNCHANGED unbundled

(***************************************************************************)
(* SpecCacerts: three threads call get_cacerts_bundle() again and again    *)
(* while files disappear.                                                  *)
(***************************************************************************)
InitCacerts ==
  /\ InitStore({Ancestors(NoEntity, NoEntity, NoEntity)})
  /\ callers = << >>
  /\ tasks = << >>
  /\ queue = NoQueue
  /\ counter = NoCounter
  /\ cacerts = NewCacerts
  /\ cloud = << >>
  /\ runs = IdleRuns
  /\ fx = IdleFetch

NextCacerts ==
  \/ \E t \in CacertsThreads :
       \/ CallGetCacertsBundle(t)
       \/ AcquireCacertsLock(t)
       \/ CheckCached(t)
       \/ ExtractResource(t)
       \/ AssignCacerts(t)
       \/ ReturnCacerts(t)
  \/ RemoveFile

SpecCacerts == InitCacerts /\ [][NextCacerts]_vars

(***************************************************************************)
(*                         Properties                                      *)
(***************************************************************************)
Stored == instances[Instance0]            \* the Instance, as stored
Exists == Stored # NoEntity
Sent(kind) == events[<<kind, hostname(Instance0)>>]

\* The Instance entities whose url is url.
RecordsOf(url) ==
  {k \in InstanceKeys : instances[k] # NoEntity /\ instances[k].url = url}

\* C1 (SpecDiscovery): once ensure_entities_exist has returned, every URL
\* fetch returned has exactly one Instance entity, stored under the key
\* made of the manager's base name, revision and zone and the name of the
\* instance; and a run that starts after a run on the same listing has
\* returned writes no Instance and sends no CREATED event.
C1_OneRecordPerUrl ==
  \A r \in DOMAIN runs :
    runs[r].pc = "done" =>
      \A url \in Range(runs[r].urls) :
        /\ RecordsOf(url) = {<<"base", "rev", "z1", url[Len(url)]>>}
        /\ instances[<<"base", "rev", "z1", url[Len(url)]>>]
             = NewInstance(Manager0, url)

C1_SecondRunWritesNothing ==
  \A r \in DOMAIN runs :
    \A c \in Batch(r) :
      (runs[r].again /\ callers'[c] # callers[c]) =>
        /\ instances' = instances
        /\ events' = events
        /\ ~last'.put

C1_DiscoveryIdempotent ==
  [] C1_OneRecordPerUrl /\ [][C1_SecondRunWritesNothing]_vars

\* A second run has returned, on a listing of two distinct URLs.
C1_Witness ==
  \E r \in DOMAIN runs :
    /\ runs[r].pc = "done"
    /\ runs[r].again
    /\ Cardinality(Range(runs[r].urls)) = 2

\* C2 (Spec): of the concurrent calls of ensure_entity_exists for the
\* absent Instance exactly one writes it and sends CREATED: the entity
\* exists iff one call has written it, and that call has sent the one
\* CREATED event or is about to; once the entity exists it stays, and no
\* step of ensure_entity_exists writes or sends anything.
C2_OneCreation ==
  Sent("CREATED")
    + Cardinality({c \in DOMAIN callers : callers[c].pc = "event"})
    = IF Exists THEN 1 ELSE 0

C2_OthersDoNothing ==
  Exists =>
    /\ instances'[Instance0] # NoEntity
    /\ last'.op \in {"ensure_entity_exists", "_ensure_entity_exists"} =>
         /\ instances' = instances
         /\ events' = events
         /\ ~last'.put
         /\ \A c \in DOMAIN callers :
              callers'[c].pc = "event" => callers[c].pc = "event"

C2_ExactlyOneCreates ==
  [] C2_OneCreation /\ [][C2_OthersDoNothing]_vars

\* A call passed the check outside the transaction, lost the race and
\* found the entity in the transaction; the winner has sent CREATED.
C2_Witness ==
  /\ last = Step("_ensure_entity_exists", FALSE)
  /\ Exists
  /\ Sent("CREATED") = 1

\* C3 (SpecDelete): deletion_ts is written at most once, and only after
\* api.delete_instances answered DONE or raised an error with status 400.
C3_WrittenOnce ==
  (Exists /\ Stored.deletion_ts # 0) =>
    instances'[Instance0].deletion_ts = Stored.deletion_ts

C3_OnlyIfConfirmed == (Exists /\ Stored.deletion_ts # 0) => confirmed

C3_DeletionTsSetOnce ==
  [] C3_OnlyIfConfirmed /\ [][C3_WrittenOnce]_vars

\* A second task called set_deletion_time with another time, and the
\* first time stayed.
C3_Witness ==
  \E t \in DOMAIN tasks :
    /\ tasks[t].pc = "event"
    /\ ~tasks[t].put
    /\ Exists
    /\ Stored.deletion_ts # 0
    /\ Stored.deletion_ts # tasks[t].now

\* The manager of Instance0 is drained: line 426-429 on the stored ancestors.
Manager0Drained ==
  /\ revisions[parent(Manager0)] # NoEntity
  /\ templates[parent(parent(Manager0))] # NoEntity
  /\ \/ Manager0 \in revisions[parent(Manager0)].drained
     \/ parent(Manager0) \in templates[parent(parent(Manager0))].drained

\* The deletion rule of the data model, on an Instance entity.
MayBeDeleted(instance) ==
  \/ instance.pending_deletion /\ instance.deletion_ts = 0
  \/ Manager0Drained /\ ~instance.cataloged /\ instance.deletion_ts = 0

\* A task calls api.delete_instances in this step.
CallsApi(t) == tasks[t].pc = "rpc" /\ tasks'[t].pc # "rpc"

\* C4 as claimed (SpecDelete): the Instance as stored when the API is
\* called may be deleted.
C4_StoredMayBeDeleted ==
  [][\A t \in DOMAIN tasks : CallsApi(t) => MayBeDeleted(Stored)]_vars

\* C4 as amended (SpecDelete): the Instance as the task read it may be
\* deleted, and the task was the first to be answered DONE or 400 or the
\* Instance as stored is marked or drained as well.
C4_ReadMayBeDeleted ==
  [][\A t \in DOMAIN tasks :
       CallsApi(t) =>
         /\ MayBeDeleted(tasks[t].instance)
         /\ Exists
         /\ Stored.pending_deletion \/ Manager0Drained]_vars

\* A task is about to call the API for an Instance another task has
\* recorded as deleted since.
C4_Witness ==
  \E t \in DOMAIN tasks :
    /\ tasks[t].pc = "rpc"
    /\ Stored.deletion_ts # 0

\* C5 as claimed (Spec): after a call of mark_for_deletion on an existing
\* Instance, the second of two calls included, the Instance is marked and
\* has no lease, and DELETION_PROPOSED has been sent exactly once.
C5_MarkedWithoutLease ==
  /\ (last.op = "mark_for_deletion" /\ Exists) =>
        Stored.pending_deletion /\ Stored.lease_expiration_ts = 0
  /\ Sent("DELETION_PROPOSED")
       = IF Exists /\ Stored.pending_deletion THEN 1 ELSE 0

\* C5 as amended (Spec): after a call of mark_for_deletion on an existing
\* Instance the Instance is marked; it has no lease if it was not marked
\* or had no lease before the call; a call on an Instance already marked
\* writes nothing, sends nothing and keeps the lease the Instance has;
\* DELETION_PROPOSED is sent exactly once, when the flag is set.
C5_MarkedAfterCall ==
  /\ (last.op = "mark_for_deletion" /\ Exists) => Stored.pending_deletion
  /\ Sent("DELETION_PROPOSED")
       = IF Exists /\ Stored.pending_deletion THEN 1 ELSE 0

C5_SecondCallNoWrite ==
  (Exists /\ last'.op = "mark_for_deletion") =>
    /\ (~Stored.pending_deletion \/ Stored.lease_expiration_ts = 0) =>
          instances'[Instance0].lease_expiration_ts = 0
    /\ Stored.pending_deletion =>
          /\ instances' = instances
          /\ events' = events
          /\ ~last'.put

C5_MarkIdempotent ==
  [] C5_MarkedAfterCall /\ [][C5_SecondCallNoWrite]_vars

\* mark_for_deletion has run on an Instance already marked.
C5_Witness ==
  /\ last = Step("mark_for_deletion", FALSE)
  /\ Exists
  /\ Stored.pending_deletion

\* C6 as claimed (Spec): an Instance pending deletion has no lease.
C6_PendingHasNoLease ==
  (Exists /\ Stored.pending_deletion) => Stored.lease_expiration_ts = 0

\* C6 as amended (Spec): the step that sets pending_deletion leaves the
\* Instance without a lease.
C6_LeaseClearedWhenMarked ==
  [][(Exists /\ ~Stored.pending_deletion
        /\ instances'[Instance0].pending_deletion) =>
       instances'[Instance0].lease_expiration_ts = 0]_vars

\* mark_for_deletion has just set the flag.
C6_Witness ==
  /\ last = Step("mark_for_deletion", TRUE)
  /\ Stored.pending_deletion
  /\ Stored.lease_expiration_ts = 0

\* C7 (Spec): the first add_subscription_metadata that commits sets the
\* subscription, the service account and one metadata update, all from its
\* arguments; every later call, whatever its arguments, changes nothing.
C7_OneUpdate ==
  Exists =>
    IF Stored.pubsub_subscription = << >>
      THEN /\ Stored.pending_metadata_updates = << >>
           /\ Stored.pubsub_service_account = ""
      ELSE \E a \in Subscriptions :
             /\ Stored.pubsub_subscription
                  = <<"projects", a[1], "subscriptions", a[2]>>
             /\ Stored.pubsub_service_account = a[3]
             /\ Stored.pending_metadata_updates
                  = << [ pubsub_service_account      |-> a[3],
                         pubsub_subscription         |-> a[2],
                         pubsub_subscription_project |-> a[1] ] >>

C7_LaterCallsNoOp ==
  (Exists /\ Stored.pubsub_subscription # << >>) =>
    /\ instances'[Instance0].pubsub_subscription = Stored.pubsub_subscription
    /\ instances'[Instance0].pubsub_service_account
         = Stored.pubsub_service_account
    /\ instances'[Instance0].pending_metadata_updates
         = Stored.pending_metadata_updates
    /\ last'.op = "add_subscription_metadata" =>
         instances' = instances /\ ~last'.put

C7_FirstWriteWins ==
  [] C7_OneUpdate /\ [][C7_LaterCallsNoOp]_vars

\* add_subscription_metadata has run on an Instance that had one.
C7_Witness ==
  /\ last = Step("add_subscription_metadata", FALSE)
  /\ Exists
  /\ Stored.pubsub_subscription # << >>

\* The URLs of all pages of a listing, in page order.
RECURSIVE AllItems(_)
AllItems(listing) ==
  IF listing = << >> THEN << >>
  ELSE listing[1].items \o AllItems(Tail(listing))

\* C8 (SpecFetch): when the preconditions hold, fetch calls the API once
\* per page, each call after the first with the token of the page before,
\* and returns the URLs of all pages in page order.
C8_FetchReturnsAllPages ==
  (FetchPreconditions(Manager0) /\ fx.pc \notin {"idle", "while"}) =>
    /\ fx.pc = "return"
    /\ fx.instance_urls = AllItems(cloud)
    /\ fx.requests = [i \in 1 .. Len(cloud) |-> IF i = 1 THEN 0 ELSE i]

\* C9 (SpecDiscovery): every run of ensure_entities_exist ends by setting
\* the manager's instances to the keys of the URLs fetch returned; with no
\* URL the Instance store stays empty; and when a precondition fails the
\* API is not called.
C9_RunSetsInstances ==
  \A r \in DOMAIN runs :
    runs[r].pc \notin {"idle", "batch"} =>
      /\ runs[r].pc = "done"
      /\ managers[Manager0] # NoEntity =>
           managers[Manager0].instances
             = {<<"base", "rev", "z1", url[Len(url)]>> :
                  url \in Range(runs[r].urls)}
      /\ runs[r].urls = << >> => \A k \in InstanceKeys : instances[k] = NoEntity
      /\ ~FetchPreconditions(Manager0) => runs[r].requests = << >>

\* C10 (SpecDelete): delete_pending and delete_drained that read an
\* Instance with deletion_ts set call no API, send no event and write
\* nothing: the task returns.
C10_DeletedIsSkipped ==
  [][(Exists /\ Stored.deletion_ts # 0
        /\ last'.op \in {"delete_pending", "delete_drained"}) =>
       /\ instances' = instances
       /\ events' = events
       /\ confirmed' = confirmed
       /\ tasks' = tasks
       /\ ~last'.put]_vars

\* A deletion task has just read an Instance with deletion_ts set that
\* passes every other guard of both functions.
C10_Witness ==
  /\ last.op \in {"delete_pending", "delete_drained"}
  /\ Exists
  /\ Stored.deletion_ts # 0
  /\ Stored.pending_deletion
  /\ ~Stored.cataloged
  /\ Manager0Drained
  /\ managers[Manager0] # NoEntity

\* C11 (SpecSchedule): when api.delete_instances returns PENDING, the task
\* ends without writing the Instance or sending an event, and a later run
\* of schedule_pending_deletion or schedule_drained_deletion enqueues a
\* task for the Instance if it is pending, or drained and listed by its
\* manager and not cataloged, and has no deletion_ts.
C11_PendingAnswer ==
  last'.status = "PENDING" =>
    /\ instances' = instances
    /\ events' = events
    /\ ~last'.put
    /\ ~last'.raised
    /\ \E t \in DOMAIN tasks : tasks[t].pc = "rpc" /\ tasks'[t] = IdleTask

\* A run of a deletion scan adds a task for an Instance its test selects.
NextPassEnqueues ==
  /\ ( /\ last'.op = "schedule_pending_deletion"
       /\ Exists /\ Stored.pending_deletion /\ Stored.deletion_ts = 0 ) =>
       queue'[<<"delete-instance-pending-deletion", Instance0>>]
         = queue[<<"delete-instance-pending-deletion", Instance0>>] + 1
  /\ ( /\ last'.op = "schedule_drained_deletion"
       /\ Manager0Drained
       /\ managers[Manager0] # NoEntity
       /\ Instance0 \in managers[Manager0].instances
       /\ Exists /\ ~Stored.cataloged /\ Stored.deletion_ts = 0 ) =>
       queue'[<<"delete-drained-instance", Instance0>>]
         = queue[<<"delete-drained-instance", Instance0>>] + 1

C11_PendingLeavesEligible ==
  [][C11_PendingAnswer /\ NextPassEnqueues]_vars

\* The API has just answered PENDING to a task the scan enqueued, and the
\* Instance is still pending deletion without a deletion_ts.
C11_Witness ==
  /\ last.status = "PENDING"
  /\ Exists
  /\ Stored.pending_deletion
  /\ Stored.deletion_ts = 0
  /\ ~confirmed

\* C12 (SpecDelete): a task whose call of api.delete_instances raised a
\* 400 goes on to set_deletion_time and then sends DELETION_SUCCEEDED and
\* nothing else; a task whose call returned DONE goes on to
\* set_deletion_time and then sends DELETION_SCHEDULED and nothing else;
\* after set_deletion_time the Instance has a deletion_ts.
C12_EventOfAnswer ==
  /\ last'.status \in {"DONE", "Error400"} =>
       \E t \in DOMAIN tasks :
         /\ tasks[t].pc = "rpc"
         /\ tasks'[t].pc = "set"
         /\ tasks'[t].event = IF last'.status = "DONE"
                                THEN "DELETION_SCHEDULED"
                                ELSE "DELETION_SUCCEEDED"
  /\ \A t \in DOMAIN tasks :
       /\ (tasks[t].pc = "set" /\ tasks'[t].pc # "set") =>
            /\ tasks'[t].pc = "event"
            /\ tasks'[t].event = tasks[t].event
            /\ instances'[Instance0].deletion_ts # 0
            /\ Stored.deletion_ts = 0 =>
                 instances'[Instance0].deletion_ts = tasks[t].now
       /\ (tasks[t].pc = "event" /\ tasks'[t].pc # "event") =>
            \A kind \in EventKinds :
              events'[<<kind, "a">>]
                = events[<<kind, "a">>]
                    + IF kind = tasks[t].event THEN 1 ELSE 0

C12_TerminalEvents == [][C12_EventOfAnswer]_vars

\* A 400 was the only confirming answer so far: the Instance has a
\* deletion_ts, DELETION_SUCCEEDED was sent and DELETION_SCHEDULED was not.
C12_Witness ==
  /\ Exists
  /\ Stored.deletion_ts # 0
  /\ Sent("DELETION_SUCCEEDED") = 1
  /\ Sent("DELETION_SCHEDULED") = 0
  /\ \A t \in DOMAIN tasks : tasks[t].pc = "idle"

\* C13 (SpecSchedule): a run of delete_drained goes on to the call of
\* api.delete_instances iff the Instance exists, has no deletion_ts, is
\* not cataloged and has a url, its manager, its revision and its template
\* exist, the revision has a project, and the manager is in the drained
\* set of the revision or the revision in the drained set of the template;
\* a run that does not go on changes no entity and sends no event.
C13_ReachesApi ==
  /\ Exists
  /\ Stored.deletion_ts = 0
  /\ ~Stored.cataloged
  /\ Stored.url # << >>
  /\ managers[Manager0] # NoEntity
  /\ revisions[<<"base", "rev">>] # NoEntity
  /\ revisions[<<"base", "rev">>].project # ""
  /\ templates[<<"base">>] # NoEntity
  /\ \/ Manager0 \in revisions[<<"base", "rev">>].drained
     \/ <<"base", "rev">> \in templates[<<"base">>].drained

C13_DrainedStep ==
  last'.op = "delete_drained" =>
    /\ instances' = instances
    /\ events' = events
    /\ ~last'.put /\ ~last'.raised
    /\ \E t \in DOMAIN tasks :
         /\ tasks[t].pc = "idle"
         /\ \A u \in DOMAIN tasks \ {t} : tasks'[u] = tasks[u]
         /\ IF C13_ReachesApi
              THEN tasks'[t].pc = "rpc" /\ tasks'[t].instance.url = Stored.url
              ELSE tasks'[t] = IdleTask

C13_DrainedRule == [][C13_DrainedStep]_vars

\* delete_drained has run on a cataloged Instance of a drained manager
\* and has not gone on to the API.
C13_Witness ==
  /\ last.op = "delete_drained"
  /\ \A t \in DOMAIN tasks : tasks[t] = IdleTask
  /\ Exists
  /\ Stored.deletion_ts = 0
  /\ Stored.cataloged
  /\ Stored.url # << >>
  /\ managers[Manager0] # NoEntity
  /\ Manager0Drained

\* C14 (Spec): add_lease_expiration_ts calls put() iff the Instance exists
\* and its lease_expiration_ts differs from the argument; after the call
\* an existing Instance has the argument as its lease and every other
\* field as before; on a missing Instance nothing is written or created.
C14_LeaseStep ==
  last'.op = "add_lease_expiration_ts" =>
    /\ events' = events
    /\ \A k \in InstanceKeys \ {Instance0} : instances'[k] = instances[k]
    /\ IF Exists
         THEN /\ instances'[Instance0]
                   = [Stored EXCEPT !.lease_expiration_ts = last'.arg]
              /\ last'.put <=> (Stored.lease_expiration_ts # last'.arg)
         ELSE /\ instances'[Instance0] = NoEntity
              /\ ~last'.put

C14_LeaseLastWriterWins == [][C14_LeaseStep]_vars

\* A second call has replaced the lease of the first by another.
C14_Witness ==
  /\ last.op = "add_lease_expiration_ts"
  /\ last.put
  /\ last.arg = 2
  /\ Exists
  /\ Stored.lease_expiration_ts = 2
  /\ Stored.pending_deletion

\* The outermost enter/exit pairs thread t has completed: its entries from
\* outside, less the one it is in or is leaving.
CompletedPairs(t) ==
  counter.active[t].entered
    - IF counter.active[t].recursion > 0 \/ counter.active[t].pc # "out"
        THEN 1 ELSE 0

RECURSIVE SumOfPairs(_)
SumOfPairs(threads) ==
  IF threads = {} THEN 0
  ELSE LET t == CHOOSE x \in threads : TRUE
       IN CompletedPairs(t) + SumOfPairs(threads \ {t})

\* C15 (SpecProfile): call_count is the number of outermost enter/exit
\* pairs completed, over all threads; a step changes call_count or
\* total_time only for a thread that is leaving its outermost entry, adding
\* one call and the time the thread measured; the depth of one thread does
\* not hold back or count for another.
C15_CountsPairs ==
  /\ counter.call_count = SumOfPairs(Threads)
  /\ \A t \in Threads :
       counter.active[t].pc # "out" => counter.active[t].recursion = 0

C15_OutermostOnly ==
  /\ counter'.call_count # counter.call_count =>
       /\ counter'.call_count = counter.call_count + 1
       /\ \E t \in Threads :
            /\ counter.active[t].pc = "call_count"
            /\ counter.active[t].recursion = 0
            /\ counter'.active[t].pc = "out"
  /\ counter'.total_time # counter.total_time =>
       \E t \in Threads :
         /\ counter.active[t].pc = "total_time"
         /\ counter.active[t].recursion = 0
         /\ counter'.total_time
              = counter.total_time + counter.active[t].time_inside

C15_RecursionCountsOnce ==
  [] C15_CountsPairs /\ [][C15_OutermostOnly]_vars

\* Both threads have completed calls, and one is two levels deep while the
\* other waits for the lock at its outermost exit.
C15_Witness ==
  /\ counter.call_count >= 2
  /\ \E t, u \in Threads :
       /\ counter.active[t].recursion = 2
       /\ counter.active[t].entered = 2
       /\ counter.active[u].pc = "lock"
       /\ counter.active[u].entered = 2

\* C16 (SpecSchedule): when api.delete_instances raises an error with
\* another status than 400, _delete raises it again: the task ends there,
\* no entity is written, no event is sent and no task is enqueued; a later
\* run of the scan that selected the Instance selects it again.
C16_ErrorAnswer ==
  last'.status = "Error500" =>
    /\ last'.raised
    /\ ~last'.put
    /\ instances' = instances
    /\ events' = events
    /\ queue' = queue
    /\ confirmed' = confirmed
    /\ \E t \in DOMAIN tasks : tasks[t].pc = "rpc" /\ tasks'[t] = IdleTask

C16_ErrorPropagates == [][C16_ErrorAnswer /\ NextPassEnqueues]_vars

\* The API has just raised a 500 to a task for a drained Instance that
\* is not cataloged, not pending and has no deletion_ts.
C16_Witness ==
  /\ last.status = "Error500"
  /\ last.raised
  /\ Exists
  /\ ~Stored.pending_deletion
  /\ ~Stored.cataloged
  /\ Stored.deletion_ts = 0
  /\ Manager0Drained

\* C17 (SpecCalls): delete_pending on an Instance that is missing, not
\* pending deletion or without url, or whose manager or revision is
\* missing or whose revision has no project, returns without raising,
\* calls no API, sends no event and writes nothing; mark_for_deletion,
\* add_subscription_metadata, add_lease_expiration_ts and
\* set_deletion_time on a missing Instance return the same way and create
\* no entity.
C17_GuardFails ==
  \/ ~Exists
  \/ ~Stored.pending_deletion
  \/ Stored.url = << >>
  \/ managers[Manager0] = NoEntity
  \/ revisions[<<"base", "rev">>] = NoEntity
  \/ revisions[<<"base", "rev">>].project = ""

C17_NothingDone ==
  /\ instances' = instances
  /\ events' = events
  /\ tasks' = tasks
  /\ confirmed' = confirmed
  /\ ~last'.put
  /\ ~last'.raised

C17_MissingStep ==
  /\ (last'.op = "delete_pending" /\ C17_GuardFails) =>
       C17_NothingDone /\ \A t \in DOMAIN tasks : tasks'[t].pc # "rpc"
  /\ ( /\ ~Exists
       /\ last'.op \in {"mark_for_deletion", "add_subscription_metadata",
                        "add_lease_expiration_ts", "set_deletion_time"} ) =>
       C17_NothingDone

C17_MissingIsSkipped == [][C17_MissingStep]_vars

\* set_deletion_time has just run on a missing Instance.
C17_Witness ==
  /\ last.op = "set_deletion_time"
  /\ last.arg # 0
  /\ ~Exists

\* C18 (SpecScheduleFair): an Instance that is pending deletion and has a
\* url, a manager and a revision with a project eventually has a
\* deletion_ts; and once it has one, no run of a scan enqueues a task for
\* it.
C18_Deletable ==
  /\ Exists
  /\ Stored.pending_deletion
  /\ Stored.url # << >>
  /\ managers[Manager0] # NoEntity
  /\ revisions[<<"base", "rev">>] # NoEntity
  /\ revisions[<<"base", "rev">>].project # ""

C18_Deleted == Exists /\ Stored.deletion_ts # 0

C18_NoMoreTasks ==
  C18_Deleted =>
    \A e \in StaleTasks : queue'[e] <= queue[e]

C18_EventuallyDeleted ==
  (C18_Deletable ~> C18_Deleted) /\ [][C18_NoMoreTasks]_vars

\* A delete_pending task has written the deletion_ts, and the scan has run
\* since without enqueuing anything.
C18_Witness ==
  /\ last.op = "schedule_pending_deletion"
  /\ C18_Deleted
  /\ Sent("DELETION_SCHEDULED") = 1
  /\ \A e \in DOMAIN queue : queue[e] = 0

\* The entities each scan is to enqueue a task for.
C19_Fetches(k) ==
  managers[k] # NoEntity /\ managers[k].url # << >>

C19_Pending(k) ==
  /\ instances[k] # NoEntity
  /\ instances[k].pending_deletion
  /\ instances[k].deletion_ts = 0

C19_DrainedManager(m) ==
  /\ managers[m] # NoEntity
  /\ revisions[<<"base", "rev">>] # NoEntity
  /\ templates[<<"base">>] # NoEntity
  /\ \/ m \in revisions[<<"base", "rev">>].drained
     \/ <<"base", "rev">> \in templates[<<"base">>].drained

C19_Drained(k) ==
  /\ instances[k] # NoEntity
  /\ ~instances[k].cataloged
  /\ instances[k].deletion_ts = 0
  /\ \E m \in ManagerKeys :
       C19_DrainedManager(m) /\ k \in managers[m].instances

C19_Selected(op, e) ==
  \/ /\ op = "schedule_fetch"
     /\ e[1] = "fetch-instances"
     /\ C19_Fetches(e[2])
  \/ /\ op = "schedule_pending_deletion"
     /\ e[1] = "delete-instance-pending-deletion"
     /\ C19_Pending(e[2])
  \/ /\ op = "schedule_drained_deletion"
     /\ e[1] = "delete-drained-instance"
     /\ C19_Drained(e[2])

\* C19 (SpecScan): a run of schedule_fetch, schedule_pending_deletion or
\* schedule_drained_deletion enqueues exactly one task for every entity
\* its test selects and none for any other, on its own queue only, and
\* writes no entity.
C19_ScanStep ==
  last'.op \in {"schedule_fetch", "schedule_pending_deletion",
                "schedule_drained_deletion"} =>
    /\ \A e \in QueuedTasks :
         queue'[e] = queue[e] + IF C19_Selected(last'.op, e) THEN 1 ELSE 0
    /\ instances' = instances
    /\ managers' = managers
    /\ revisions' = revisions
    /\ templates' = templates
    /\ events' = events
    /\ ~last'.put

C19_OneTaskPerMatch == [][C19_ScanStep]_vars

\* schedule_drained_deletion has enqueued a task for an Instance of a
\* manager drained through the template and none for the cataloged
\* Instance of the same manager.
C19_Witness ==
  /\ last.op = "schedule_drained_deletion"
  /\ queue[<<"delete-drained-instance", InstanceB>>] = 1
  /\ queue[<<"delete-drained-instance", Instance0>>] = 0
  /\ queue[<<"delete-drained-instance", Instance1>>] = 1
  /\ queue[<<"fetch-instances", Manager0>>] = 1
  /\ instances[Instance0] # NoEntity
  /\ instances[Instance0].cataloged
  /\ revisions[<<"base", "rev">>].drained = {}

\* A step of discovery on an Instance: the check of ensure_entity_exists
\* outside the transaction, or the transaction _ensure_entity_exists.
C20_DiscoveryStep ==
  last'.op \in {"ensure_entity_exists", "_ensure_entity_exists"}

C20_ExistingKept ==
  C20_DiscoveryStep =>
    \A k \in InstanceKeys :
      instances[k] # NoEntity => instances'[k] = instances[k]

C20_NeverDeleted ==
  \A k \in InstanceKeys :
    instances[k] # NoEntity => instances'[k] # NoEntity

\* C20 (Spec): a step of ensure_entity_exists leaves every field of an
\* Instance that already exists as it was (pending_deletion, deletion_ts,
\* the lease, the subscription fields, the url), and no step of any
\* operation removes an Instance.
C20_DiscoveryKeepsInstances ==
  [][C20_ExistingKept /\ C20_NeverDeleted]_vars

\* The transaction of a call whose first check saw no Instance has run on
\* an Instance that was meanwhile created, subscribed, marked and deleted,
\* and wrote nothing.
C20_Witness ==
  /\ last.op = "_ensure_entity_exists"
  /\ ~last.put
  /\ instances[Instance0] # NoEntity
  /\ instances[Instance0].pending_deletion
  /\ instances[Instance0].deletion_ts # 0
  /\ instances[Instance0].pubsub_subscription # << >>

\* The parts of C21, each on the tasks in flight for Instance0.
C21_AtMostOneTerminalEvent ==
  Sent("DELETION_SCHEDULED") + Sent("DELETION_SUCCEEDED") <= 1

\* A task about to send its terminal event is one whose set_deletion_time
\* wrote deletion_ts.
C21_EventOnlyByWriter ==
  \A t \in DOMAIN tasks : tasks[t].pc = "event" => tasks[t].put

\* A task about to call api.delete_instances finds no deletion_ts stored.
C21_NoRpcOnceStored ==
  \A t \in DOMAIN tasks :
    tasks[t].pc = "rpc" => (Exists /\ Stored.deletion_ts = 0)

\* C21 as claimed (SpecDelete): under any interleaving of delete_pending
\* and delete_drained tasks for one Instance, a terminal event
\* (DELETION_SCHEDULED or DELETION_SUCCEEDED) is sent only by the task
\* whose set_deletion_time wrote deletion_ts, so at most one terminal event
\* is sent for the Instance, and api.delete_instances is not called once
\* deletion_ts is stored.
C21_SafelyReExecutable ==
  /\ C21_AtMostOneTerminalEvent
  /\ C21_EventOnlyByWriter
  /\ C21_NoRpcOnceStored

\* The callers inside the with block of get_cacerts_bundle, and those
\* whose extraction is running or has run and is not yet stored.
C22_Inside ==
  {t \in CacertsThreads :
     cacerts.callers[t].pc \in {"check", "extract", "assign", "return"}}

C22_Extracting ==
  {t \in CacertsThreads : cacerts.callers[t].pc \in {"extract", "assign"}}

\* The test, the extraction and the assignment are made by the holder of
\* the lock; every caller that has returned has a path.
C22_UnderLock ==
  /\ \A t \in C22_Inside : cacerts.lock = t
  /\ Cardinality(C22_Extracting) <= 1
  /\ \A t \in CacertsThreads :
       cacerts.callers[t].pc = "returned" => cacerts.callers[t].value # 0

\* An extraction starts only when no path is cached or the file of the
\* cached path is gone; _ca_certs is written only by the holder of the
\* lock, with the path its extraction returned; a caller that finds the
\* cached file returns the cached path.
C22_LazyStep ==
  \A t \in CacertsThreads :
    /\ (cacerts.callers[t].pc # "extract" /\ cacerts'.callers[t].pc = "extract")
         => (cacerts.ca_certs = 0 \/ cacerts.ca_certs \notin cacerts.files)
    /\ (cacerts.callers[t].pc = "check" /\ cacerts'.callers[t].pc = "return")
         => /\ cacerts.ca_certs # 0
            /\ cacerts.ca_certs \in cacerts.files
            /\ cacerts'.callers[t].value = cacerts.ca_certs
    /\ (cacerts.callers[t].pc = "assign" /\ cacerts'.callers[t].pc # "assign")
         => /\ cacerts.lock = t
            /\ cacerts'.ca_certs = cacerts.callers[t].path
            /\ cacerts'.ca_certs # 0
    /\ cacerts'.ca_certs # cacerts.ca_certs
         => \E u \in CacertsThreads :
              cacerts.lock = u /\ cacerts.callers[u].pc = "assign"

\* C22 (SpecCacerts): get_cacerts_bundle tests, extracts and assigns while
\* holding _ca_certs_lock, so at most one extraction runs at a time; every
\* caller returns a path that is not None; while _ca_certs is set and its
\* file exists no extraction starts, and one starts again only after the
\* file is gone.
C22_LockGuardedLazyInit == [] C22_UnderLock /\ [][C22_LazyStep]_vars

\* One caller has returned the path of the first extraction, the file was
\* removed since, a second caller extracts again under the lock, and a
\* third waits for the lock.
C22_Witness ==
  \E t, u, w \in CacertsThreads :
    /\ cacerts.callers[t].pc = "returned"
    /\ cacerts.callers[t].value = cacerts.ca_certs
    /\ cacerts.ca_certs \notin cacerts.files
    /\ cacerts.callers[u].pc = "extract"
    /\ cacerts.lock = u
    /\ cacerts.callers[w].pc = "lock"

====
